---- MODULE Spec2Model ----
(***************************************************************************)
(* DriveIndex (src/driveindex/drive_index.py): the scan handler, the       *)
(* search handler and the width-exact cell layout.                         *)
(*                                                                         *)
(* A string is a sequence of code points; a code point is written as a    *)
(* one-character TLA+ string, or as "U+xxxx" for the non-ASCII ones.      *)
(***************************************************************************)
EXTENDS Integers, Sequences, FiniteSets, TLC

VARIABLES
    disk,        \* the file at the index path: absent, not JSON, or a JSON list
    op,          \* the handler of the last run: "none", "scan", "search"
    log,         \* the log / console messages of the last run, as tags
    exitCode,    \* exit status of the last run (-1 while none has finished)
    fault,       \* what the storage did to the last run's read and write of the index file
    drive,       \* handle_scan: the entry of /Volumes chosen as drive_path
    walked,      \* handle_scan: the records appended by the os.walk loop
    index,       \* handle_search: the loaded list as it is when the handler returns
    keyword,     \* handle_search: the keyword argument
    results,     \* handle_search: the results list
    padText,     \* pad_to_width: text argument
    padWidth,    \* pad_to_width: width argument
    padOut,      \* pad_to_width: returned string
    padDone      \* pad_to_width has returned

vars == <<disk, op, log, exitCode, fault, drive, walked, index, keyword, results,
          padText, padWidth, padOut, padDone>>

progVars == <<disk, op, log, exitCode, fault, drive, walked, index, keyword, results>>
padVars == <<padText, padWidth, padOut, padDone>>

-----------------------------------------------------------------------------
(* Bounds *)

MaxRecs == 2        \* records kept in the index file
MaxKwLen == 2       \* code points in a search keyword
MaxTextLen == 3     \* code points in a laid-out cell text
MaxWidth == 5       \* target display width of a cell

-----------------------------------------------------------------------------
(* Code points *)

UPPER == <<"A","B","C","D","E","F","G","H","I","J","K","L","M",
           "N","O","P","Q","R","S","T","U","V","W","X","Y","Z">>
LOWER == <<"a","b","c","d","e","f","g","h","i","j","k","l","m",
           "n","o","p","q","r","s","t","u","v","w","x","y","z">>

COMBINING_ACUTE == "U+0301"
E_ACUTE == "U+00E9"
CAP_E_ACUTE == "U+00C9"
CJK_NI == "U+4F60"

PosIn(c, s) == IF \E i \in DOMAIN s : s[i] = c
               THEN CHOOSE i \in DOMAIN s : s[i] = c
               ELSE 0

\* ord(c)
CodePoint(c) ==
    IF PosIn(c, UPPER) > 0 THEN 64 + PosIn(c, UPPER)
    ELSE IF PosIn(c, LOWER) > 0 THEN 96 + PosIn(c, LOWER)
    ELSE CASE c = " " -> 32
           [] c = "." -> 46
           [] c = "_" -> 95
           [] c = CAP_E_ACUTE -> 201
           [] c = E_ACUTE -> 233
           [] c = COMBINING_ACUTE -> 769
           [] c = CJK_NI -> 20320

\* str.lower() on one code point
LowerChar(c) ==
    IF PosIn(c, UPPER) > 0 THEN LOWER[PosIn(c, UPPER)]
    ELSE IF c = CAP_E_ACUTE THEN E_ACUTE
    ELSE c

\* str.lower()
Lower(s) == [i \in DOMAIN s |-> LowerChar(s[i])]

\* canonical composition of a starter with the mark that follows it
Composable(b, m) == m = COMBINING_ACUTE /\ b \in {"e", "E"}
Compose(b, m) == IF b = "e" THEN E_ACUTE ELSE CAP_E_ACUTE

RECURSIVE NFC(_)
\* unicodedata.normalize("NFC", s)
NFC(s) ==
    IF Len(s) < 2 THEN s
    ELSE IF Composable(s[1], s[2])
         THEN <<Compose(s[1], s[2])>> \o NFC(SubSeq(s, 3, Len(s)))
         ELSE <<s[1]>> \o NFC(Tail(s))

\* normalize (drive_index.py)
normalize(s) == NFC(s)

\* Python's  k in s  on strings
IsSubstr(k, s) ==
    \E i \in 0..(Len(s) - Len(k)) : SubSeq(s, i + 1, i + Len(k)) = k

RECURSIVE StrLess(_, _)
\* Python's  a < b  on strings: lexicographic by code point
StrLess(a, b) ==
    IF b = <<>> THEN FALSE
    ELSE IF a = <<>> THEN TRUE
    ELSE IF a[1] = b[1] THEN StrLess(Tail(a), Tail(b))
    ELSE CodePoint(a[1]) < CodePoint(b[1])

RECURSIVE InsertIdx(_, _, _)
\* index i placed after every index whose key is not greater (the sort is stable)
InsertIdx(i, order, keys) ==
    IF order = <<>> THEN <<i>>
    ELSE IF StrLess(keys[i], keys[order[1]]) THEN <<i>> \o order
    ELSE <<order[1]>> \o InsertIdx(i, Tail(order), keys)

RECURSIVE SortIdx(_, _)
\* the order in which a stable ascending sort leaves positions 1..n
SortIdx(n, keys) ==
    IF n = 0 THEN <<>>
    ELSE InsertIdx(n, SortIdx(n - 1, keys), keys)

\* list.sort(key=...) where keys[i] is the key of s[i]
SortByKeys(s, keys) ==
    LET order == SortIdx(Len(s), keys)
    IN [j \in DOMAIN s |-> s[order[j]]]

-----------------------------------------------------------------------------
(* Names the code compares against *)

DS_STORE == <<".","D","S","_","S","t","o","r","e">>
TM_DONOTPRESENT ==
    <<".","c","o","m",".","a","p","p","l","e",".","t","i","m","e","m","a","c",
      "h","i","n","e",".","d","o","n","o","t","p","r","e","s","e","n","t">>
FSEVENTSD == <<".","f","s","e","v","e","n","t","s","d">>
MACINTOSH_HD == <<"M","a","c","i","n","t","o","s","h"," ","H","D">>
TM_SNAPSHOTS ==
    <<"c","o","m",".","a","p","p","l","e",".","T","i","m","e","M","a","c","h",
      "i","n","e",".","l","o","c","a","l","s","n","a","p","s","h","o","t","s">>
VOLUMES == <<"V","o","l","u","m","e","s">>

IGNORED_FILES == {DS_STORE, TM_DONOTPRESENT}
IGNORED_DIRS == {FSEVENTSD}
excluded == {MACINTOSH_HD, TM_SNAPSHOTS}
volumes_root == <<VOLUMES>>

-----------------------------------------------------------------------------
(* The filesystem handle_scan reads: what os.listdir, os.walk and           *)
(* os.path.getsize report.  A directory node lists its files and its        *)
(* subdirectories in the order the walk sees them; a file entry whose size  *)
(* lookup raises OSError has readable = FALSE.                              *)

File(n, sz) == [name |-> n, size |-> sz, readable |-> TRUE]
Unreadable(n) == [name |-> n, size |-> 0, readable |-> FALSE]
Dir(n, fs, ds) == [name |-> n, kind |-> "dir", files |-> fs, dirs |-> ds]
RegularFile(n) == [name |-> n, kind |-> "file", files |-> <<>>, dirs |-> <<>>]
NoDrive == [name |-> <<>>, kind |-> "none", files |-> <<>>, dirs |-> <<>>]

fE == File(<<"E">>, 10)
fae == File(<<"a", "e">>, 2048)
fdec == File(<<"e", COMBINING_ACUTE>>, 0)
fDS == File(DS_STORE, 6148)
fTM == File(TM_DONOTPRESENT, 0)
fLocked == Unreadable(<<"a">>)

\* two files out of case-insensitive order, and a subdirectory
VolPlain == Dir(<<"a">>, <<fE, fae>>, <<Dir(<<"E">>, <<fdec>>, <<>>)>>)
\* a name stored decomposed
VolDecomposed == Dir(<<"e", COMBINING_ACUTE>>, <<fdec>>, <<>>)
\* a name stored composed; one ignored file and one file whose size is unreadable
VolComposed == Dir(<<E_ACUTE>>, <<fDS, fLocked, fE>>, <<>>)
\* only ignored files at the top, an ignored directory with a file, and a
\* directory without files above one with a file
VolDeep ==
    Dir(<<"A">>, <<fDS, fTM>>,
        << Dir(FSEVENTSD, <<fE>>, <<>>),
           Dir(<<"e">>, <<>>, <<Dir(<<"a", "e">>, <<fLocked>>, <<>>)>>) >>)
\* files only beneath an ignored directory
VolPruned ==
    Dir(<<"E">>, <<fTM>>, <<Dir(FSEVENTSD, <<>>, <<Dir(<<"a">>, <<fae>>, <<>>)>>)>>)
\* a volume that carries the ignored directory name itself
VolIgnoredName == Dir(FSEVENTSD, <<fE>>, <<>>)
\* a volume without any file
VolEmpty == Dir(<<"a">>, <<>>, <<>>)
\* entries of /Volumes that are no external drive
VolStray == RegularFile(DS_STORE)
MacHD == Dir(MACINTOSH_HD, <<fE>>, <<>>)

Drives == {VolPlain, VolDecomposed, VolComposed, VolDeep, VolPruned,
           VolIgnoredName, VolEmpty, VolStray}

\* what os.listdir("/Volumes") may return
Listings ==
    {<<>>, <<MacHD>>}
    \cup {<<MacHD, v>> : v \in Drives}
    \cup {<<VolPlain, MacHD, VolDeep>>, <<VolStray, VolDecomposed>>}

-----------------------------------------------------------------------------
(* handle_scan *)

\* volumes = [v for v in os.listdir(volumes_root) if v not in excluded]
Volumes(listing) == SelectSeq(listing, LAMBDA v : v.name \notin excluded)

PruneDirsNone(dirs) == dirs
\* dirnames[:] = [d for d in dirnames if d not in IGNORED_DIRS]
PruneDirs(dirs) == SelectSeq(dirs, LAMBDA d : d.name \notin IGNORED_DIRS)

\* valid_filenames = [f for f in filenames if f not in IGNORED_FILES]
ValidFilenames(files) == SelectSeq(files, LAMBDA f : f.name \notin IGNORED_FILES)

FileCountReadable(valid) == Len(SelectSeq(valid, LAMBDA f : f.readable))
\* "file_count": len(valid_filenames)
FileCount(valid) == Len(valid)

\* the inner loop: one {"name", "size"} per file whose getsize did not raise
SizedFiles(valid) ==
    LET ok == SelectSeq(valid, LAMBDA f : f.readable)
    IN [i \in DOMAIN ok |-> [name |-> ok[i].name, size |-> ok[i].size]]

\* directory_info for dirpath; os.path.basename(dirpath) is its last segment
DirectoryInfo(dirpath, valid) ==
    [path |-> dirpath,
     directory |-> [name |-> dirpath[Len(dirpath)], file_count |-> FileCount(valid)],
     files |-> SizedFiles(valid)]

RECURSIVE Walk(_, _)
RECURSIVE WalkEach(_, _)
\* the os.walk loop below dirpath, top-down: the records it appends
Walk(dirpath, node) ==
    LET valid == ValidFilenames(node.files)
        here == IF valid = <<>> THEN <<>> ELSE <<DirectoryInfo(dirpath, valid)>>
    IN here \o WalkEach(dirpath, PruneDirs(node.dirs))

WalkEach(dirpath, dirs) ==
    IF dirs = <<>> THEN <<>>
    ELSE Walk(dirpath \o <<dirs[1].name>>, dirs[1]) \o WalkEach(dirpath, Tail(dirs))

\* os.walk(drive_path): scandir errors at the top are swallowed (onerror=None),
\* so a top that is no directory yields nothing
WalkDrive(d) ==
    IF d.kind = "dir" THEN Walk(volumes_root \o <<d.name>>, d) ELSE <<>>

-----------------------------------------------------------------------------
(* The index file *)

Absent == [kind |-> "absent", doc |-> <<>>]
NotJson == [kind |-> "malformed", doc |-> <<>>]
\* json.dump(results, fh, indent=4, ensure_ascii=False)
JsonDump(recs) == [kind |-> "json", doc |-> recs]

LoadExistingStrict(d, rd) ==
    IF d.kind = "absent" THEN [fatal |-> FALSE, existing |-> <<>>, msg |-> <<>>]
    ELSE IF rd = "fails" \/ d.kind = "malformed"
         THEN [fatal |-> TRUE, existing |-> <<>>, msg |-> <<"load_failed">>]
    ELSE [fatal |-> FALSE, existing |-> d.doc, msg |-> <<"existing_loaded">>]
\* lines 160-172: the existing index as handle_scan loads it
LoadExisting(d, rd) ==
    IF d.kind = "absent" THEN [fatal |-> FALSE, existing |-> <<>>, msg |-> <<>>]
    ELSE IF rd = "fails"
         THEN [fatal |-> TRUE, existing |-> <<>>, msg |-> <<"load_failed">>]
    ELSE IF d.kind = "malformed"
         THEN [fatal |-> FALSE, existing |-> <<>>, msg |-> <<"invalid_json">>]
    ELSE [fatal |-> FALSE, existing |-> d.doc, msg |-> <<"existing_loaded">>]

MergeReplace(existing, new) == new
\* results.extend(existing_data), then one results.append per walked directory
Merge(existing, new) == existing \o new

\* lines 203-209: the file after the save attempt
Save(d, recs, wr) ==
    CASE wr = "ok" -> JsonDump(recs)
      [] wr = "open_fails" -> d
      [] wr = "dump_fails" -> NotJson

NoFault == [rd |-> "ok", wr |-> "ok"]

ScanEnds(code, msgs, d, chosen, recs, faults) ==
    /\ disk' = d
    /\ op' = "scan"
    /\ log' = msgs
    /\ exitCode' = code
    /\ fault' = faults
    /\ drive' = chosen
    /\ walked' = recs
    /\ index' = <<>>
    /\ keyword' = <<>>
    /\ results' = <<>>
    /\ UNCHANGED padVars

\* handle_scan(output_path): one run, from the listing of /Volumes to the exit
handle_scan ==
    \E root \in {"missing", "dir"} :
        IF root = "missing"
        THEN ScanEnds(1, <<"no_volumes_dir">>, disk, NoDrive, <<>>, NoFault)
        ELSE \E listing \in Listings :
            LET volumes == Volumes(listing) IN
            IF volumes = <<>>
            THEN ScanEnds(1, <<"no_drives">>, disk, NoDrive, <<>>, NoFault)
            ELSE \E selected_int \in 1..Len(volumes), rd \in {"ok", "fails"} :
                LET chosen == volumes[selected_int]
                    loaded == LoadExisting(disk, rd)
                    new == WalkDrive(chosen)
                    all == Merge(loaded.existing, new)
                IN IF loaded.fatal
                   THEN ScanEnds(1, loaded.msg, disk, chosen, <<>>,
                                 [rd |-> rd, wr |-> "ok"])
                   ELSE \E wr \in {"ok", "open_fails", "dump_fails"} :
                        /\ Len(all) <= MaxRecs
                        /\ ScanEnds(IF wr = "ok" THEN 0 ELSE 1,
                                    loaded.msg \o
                                      <<IF wr = "ok" THEN "saved" ELSE "save_failed">>,
                                    Save(disk, all, wr), chosen, new,
                                    [rd |-> rd, wr |-> wr])

-----------------------------------------------------------------------------
(* handle_search *)

KwChars == {"a", "A", "e", COMBINING_ACUTE, E_ACUTE}
Keywords == UNION {[1..n -> KwChars] : n \in 0..MaxKwLen}

\* lines 216-221: json.load, any failure is fatal
LoadIndex(d, rd) ==
    IF d.kind = "json" /\ rd = "ok"
    THEN [fatal |-> FALSE, index |-> d.doc]
    ELSE [fatal |-> TRUE, index |-> <<>>]

\* line 226
DirectoryName(entry) == Lower(normalize(entry.directory.name))

\* line 229: keyword in directory_name
DirHit(entry, kw) == IsSubstr(kw, DirectoryName(entry))

\* lines 233-235: the files whose name holds the keyword
Matched(entry, kw) ==
    SelectSeq(entry.files, LAMBDA f : IsSubstr(Lower(kw), Lower(normalize(f.name))))

\* line 236: matched.sort(key=lambda f: f["name"].lower())
SortedMatched(entry, kw) ==
    LET m == Matched(entry, kw)
    IN SortByKeys(m, [i \in DOMAIN m |-> Lower(m[i].name)])

\* the entry object when the loop has passed it (line 237 assigns into it)
EntryAfter(entry, kw) ==
    IF DirHit(entry, kw) THEN entry
    ELSE IF Matched(entry, kw) # <<>>
         THEN [entry EXCEPT !.files = SortedMatched(entry, kw)]
    ELSE entry

\* the entry is appended to results (lines 230 and 238)
Appended(entry, kw) == DirHit(entry, kw) \/ Matched(entry, kw) # <<>>

\* results when the loop ends: the appended entry objects, in index order
Collected(idx, kw) ==
    LET hits == SelectSeq(idx, LAMBDA e : Appended(e, kw))
    IN [j \in DOMAIN hits |-> EntryAfter(hits[j], kw)]

\* line 244: results.sort(key=lambda e: e["directory"]["name"].lower())
SortResults(res) ==
    SortByKeys(res, [i \in DOMAIN res |-> Lower(res[i].directory.name)])

\* the result list of one search over idx (lines 223-244)
Search(idx, kw) ==
    LET res == Collected(idx, kw)
    IN IF res = <<>> THEN <<>> ELSE SortResults(res)

\* the loaded list once the loop has run over it
IndexAfter(idx, kw) == [i \in DOMAIN idx |-> EntryAfter(idx[i], kw)]

SearchEnds(code, msgs, idx, kw, res) ==
    /\ op' = "search"
    /\ log' = msgs
    /\ exitCode' = code
    /\ index' = idx
    /\ keyword' = kw
    /\ results' = res
    /\ drive' = NoDrive
    /\ walked' = <<>>
    /\ UNCHANGED disk
    /\ UNCHANGED padVars

\* handle_search(index_path, keyword): one run
handle_search ==
    \E kw \in Keywords, rd \in {"ok", "fails"} :
        LET loaded == LoadIndex(disk, rd)
            res == Search(loaded.index, kw)
        IN /\ fault' = [rd |-> rd, wr |-> "ok"]
           /\ IF loaded.fatal
              THEN SearchEnds(1, <<"load_failed">>, <<>>, kw, <<>>)
              ELSE SearchEnds(0, IF res = <<>> THEN <<"no_results">> ELSE <<"results">>,
                              IndexAfter(loaded.index, kw), kw, res)

-----------------------------------------------------------------------------
(* pad_to_width *)

\* wcwidth of one code point
Wcwidth(c) == IF c = CJK_NI THEN 2
              ELSE IF c = COMBINING_ACUTE THEN 0
              ELSE 1

RECURSIVE wcswidth(_)
wcswidth(s) == IF s = <<>> THEN 0 ELSE Wcwidth(s[1]) + wcswidth(Tail(s))

Spaces(n) == [i \in 1..n |-> " "]
ellipsis == <<".", ".", ".">>

RECURSIVE Truncated(_, _, _)
\* lines 306-314: the prefix kept by the truncation loop
Truncated(text, current_width, width) ==
    IF text = <<>> THEN <<>>
    ELSE IF current_width + Wcwidth(text[1]) + wcswidth(ellipsis) > width THEN <<>>
    ELSE <<text[1]>> \o Truncated(Tail(text), current_width + Wcwidth(text[1]), width)

\* pad_to_width(text, width); " " * n is empty for n <= 0
pad_to_width(text, width) ==
    IF wcswidth(text) <= width
    THEN text \o Spaces(width - wcswidth(text))
    ELSE LET truncated == Truncated(text, 0, width)
         IN truncated \o ellipsis
              \o Spaces(width - (wcswidth(truncated) + wcswidth(ellipsis)))

PadChars == {"a", CJK_NI}
Texts == UNION {[1..n -> PadChars] : n \in 0..MaxTextLen}

\* one call of pad_to_width
PadCell ==
    /\ ~padDone
    /\ padOut' = pad_to_width(padText, padWidth)
    /\ padDone' = TRUE
    /\ UNCHANGED <<padText, padWidth>>
    /\ UNCHANGED progVars

-----------------------------------------------------------------------------
(* Specifications *)

NoProgram ==
    /\ op = "none"
    /\ log = <<>>
    /\ exitCode = -1
    /\ fault = NoFault
    /\ drive = NoDrive
    /\ walked = <<>>
    /\ index = <<>>
    /\ keyword = <<>>
    /\ results = <<>>

NoPad ==
    /\ padText = <<>>
    /\ padWidth = 0
    /\ padOut = <<>>
    /\ padDone = FALSE

\* before the first command: the index path holds nothing, or something that is no JSON
Init ==
    /\ disk \in {Absent, NotJson}
    /\ NoProgram
    /\ NoPad

Next == handle_scan \/ handle_search

Spec == Init /\ [][Next]_vars

\* the layout function on its own, over every bounded text and width
InitPad ==
    /\ disk = Absent
    /\ NoProgram
    /\ padText \in Texts
    /\ padWidth \in 0..MaxWidth
    /\ padOut = <<>>
    /\ padDone = FALSE

NextPad == PadCell

SpecPad == InitPad /\ [][NextPad]_vars

-----------------------------------------------------------------------------
(* Vocabulary of the properties *)

Range(s) == {s[i] : i \in DOMAIN s}

SearchReturned == op = "search" /\ exitCode = 0
\* the index as json.load returned it: a search never writes the file
LoadedIndex == disk.doc

\* the walk loop of the last scan ran to its end
ScanWalked == op = "scan" /\ ("saved" \in Range(log) \/ "save_failed" \in Range(log))

\* matching as section 4.3 words it: both sides in composed form, then lowercased
Folded(s) == Lower(NFC(s))
NameHolds(name, kw) == IsSubstr(Folded(kw), Folded(name))

RECURSIVE NodeAt(_, _)
\* the directory reached from node by the path segments segs
NodeAt(node, segs) ==
    IF segs = <<>> THEN node
    ELSE NodeAt(CHOOSE d \in Range(node.dirs) : d.name = segs[1], Tail(segs))

RECURSIVE DirPaths(_, _)
\* the absolute paths of node and of every directory beneath it
DirPaths(path, node) ==
    {path} \cup UNION {DirPaths(path \o <<d.name>>, d) : d \in Range(node.dirs)}

DrivePath == volumes_root \o <<drive.name>>
\* the node of the scanned tree that the record's path names
NodeOf(rec) == NodeAt(drive, SubSeq(rec.path, Len(DrivePath) + 1, Len(rec.path)))
KeptNames(node) == {f.name : f \in Range(node.files)} \ IGNORED_FILES
SizedNames(node) ==
    {f.name : f \in {g \in Range(node.files) : g.readable}} \ IGNORED_FILES

-----------------------------------------------------------------------------
(* C1 *)

\* C1: a search leaves the loaded index as it was: when handle_search returns,
\* every record of the loaded list has the path, directory name, file_count
\* and files that json.load gave it.
C1_SearchKeepsIndex ==
    SearchReturned =>
        /\ Len(index) = Len(LoadedIndex)
        /\ \A i \in DOMAIN index :
            /\ index[i].path = LoadedIndex[i].path
            /\ index[i].directory = LoadedIndex[i].directory
            /\ index[i].files = LoadedIndex[i].files

-----------------------------------------------------------------------------
(* C2 *)

\* C2: a record whose composed, lowercased directory name contains the
\* composed, lowercased keyword is in the result unchanged, all files kept.
C2_DirectoryNameRule ==
    SearchReturned =>
        \A i \in DOMAIN LoadedIndex :
            NameHolds(LoadedIndex[i].directory.name, keyword)
                => LoadedIndex[i] \in Range(results)

-----------------------------------------------------------------------------
(* C3 *)

\* C3: the result does not depend on the Unicode form of the keyword: a
\* search returns what the search for the composed form of its keyword returns.
C3_UnicodeFormIndependent ==
    SearchReturned => results = Search(LoadedIndex, NFC(keyword))

-----------------------------------------------------------------------------
(* C4 *)

IsSortedByLowerName(fs) ==
    \A k \in 1..(Len(fs) - 1) : ~StrLess(Lower(fs[k + 1].name), Lower(fs[k].name))

\* C4: for a record whose directory name does not hold the keyword, the
\* result has a record exactly when some file name holds the keyword; that
\* record carries exactly the matching files, sorted case-insensitively by
\* name, under the scan-time file_count.
C4_FileNameRule ==
    SearchReturned =>
        \A i \in DOMAIN LoadedIndex :
            LET e == LoadedIndex[i]
                want == {f \in Range(e.files) : NameHolds(f.name, keyword)}
            IN ~NameHolds(e.directory.name, keyword) =>
                IF want = {}
                THEN \A j \in DOMAIN results : results[j].path # e.path
                ELSE \E j \in DOMAIN results :
                        /\ results[j].path = e.path
                        /\ results[j].directory = e.directory
                        /\ Range(results[j].files) = want
                        /\ Len(results[j].files) = Cardinality(want)
                        /\ IsSortedByLowerName(results[j].files)

-----------------------------------------------------------------------------
(* C5 *)

\* C5: a scan that saves over a well-formed index E writes E followed by the
\* records it walked: every stored record keeps its position, and a record
\* whose path is already stored is added as a further entry.
C5_AppendingMerge ==
    [][(op' = "scan" /\ disk.kind = "json" /\ "saved" \in Range(log'))
        => /\ disk'.kind = "json"
           /\ disk'.doc = disk.doc \o walked'
           /\ \A i \in DOMAIN disk.doc : disk'.doc[i] = disk.doc[i]]_vars

\* a second scan of the same tree was appended to the first
C5_Witness ==
    /\ op = "scan"
    /\ log = <<"existing_loaded", "saved">>
    /\ walked # <<>>
    /\ disk.kind = "json"
    /\ \E i, j \in DOMAIN disk.doc : i < j /\ disk.doc[i].path = disk.doc[j].path

-----------------------------------------------------------------------------
(* C6 *)

\* C6: in every record of a scan, file_count is the number of non-ignored
\* file names of that directory, readable or not; files holds each name whose
\* size lookup succeeded once and nothing else, so len(files) <= file_count.
C6_FileCountIsNameCount ==
    ScanWalked =>
        \A k \in DOMAIN walked :
            LET rec == walked[k]
                node == NodeOf(rec)
            IN /\ rec.directory.file_count = Cardinality(KeptNames(node))
               /\ {f.name : f \in Range(rec.files)} = SizedNames(node)
               /\ Len(rec.files) = Cardinality(SizedNames(node))
               /\ Len(rec.files) <= rec.directory.file_count

\* a record one of whose files had no readable size
C6_Witness ==
    /\ ScanWalked
    /\ \E k \in DOMAIN walked :
        /\ Len(walked[k].files) < walked[k].directory.file_count
        /\ walked[k].directory.file_count = Cardinality(KeptNames(NodeOf(walked[k])))

-----------------------------------------------------------------------------
(* C7 *)

\* C7: when /Volumes is missing, or the chosen scan root is no directory, the
\* scan fails: it returns no record, writes no index and exits non-zero.
C7_BadRootFails ==
    (op = "scan" /\ ("no_volumes_dir" \in Range(log) \/ drive.kind = "file"))
        => /\ exitCode = 1
           /\ walked = <<>>
           /\ "saved" \notin Range(log)

-----------------------------------------------------------------------------
(* C8 *)

-----------------------------------------------------------------------------
(* C9 *)

IsPrefix(p, s) == Len(p) <= Len(s) /\ SubSeq(s, 1, Len(p)) = p

\* C9: the cell pad_to_width returns is exactly width columns wide; a text
\* wider than width comes back as a prefix of it, the marker, then spaces.
C9_WidthExact ==
    padDone =>
        /\ wcswidth(padOut) = padWidth
        /\ wcswidth(padText) > padWidth =>
            \E n \in 0..Len(padText), k \in 0..padWidth :
                padOut = SubSeq(padText, 1, n) \o ellipsis \o Spaces(k)

-----------------------------------------------------------------------------
(* C10 *)

HasIgnoredSegment(segs) == \E i \in DOMAIN segs : segs[i] \in IGNORED_DIRS

\* the directories of the scanned tree that hold a non-ignored file and that
\* have no ignored name among the path segments from position first on
Recordable(first) ==
    {p \in DirPaths(DrivePath, drive) :
        /\ KeptNames(NodeAt(drive, SubSeq(p, Len(DrivePath) + 1, Len(p)))) # {}
        /\ ~HasIgnoredSegment(SubSeq(p, first, Len(p)))}

\* C10 as stated: a directory without a non-ignored file gives no record, its
\* subdirectories still give theirs, and a directory with an ignored name
\* gives no record for itself or for anything beneath it.
C10_IgnoredNameNeverRecorded ==
    (ScanWalked /\ drive.kind = "dir") =>
        /\ \A k \in DOMAIN walked : walked[k].directory.file_count >= 1
        /\ {walked[k].path : k \in DOMAIN walked} = Recordable(Len(DrivePath))

\* C10 amended: the same, for ignored names below the scan root; the scan
\* root itself is walked whatever its name.
C10_PrunedBelowRoot ==
    (ScanWalked /\ drive.kind = "dir") =>
        /\ \A k \in DOMAIN walked : walked[k].directory.file_count >= 1
        /\ {walked[k].path : k \in DOMAIN walked} = Recordable(Len(DrivePath) + 1)
        /\ Len(walked) = Cardinality(Recordable(Len(DrivePath) + 1))

\* the top holds only ignored files, one subdirectory is ignored, and the
\* record comes from below a directory without files
C10_Witness ==
    /\ ScanWalked
    /\ drive = VolDeep
    /\ Len(walked) = 1
    /\ Len(walked[1].path) = Len(DrivePath) + 2

====
